---- MODULE Spec2Model ----
(***************************************************************************)
(* Model of the per-connection streaming orchestrator of src/main.py:      *)
(* the frame loop of ws_handler (audio buffering and flushing, start/stop  *)
(* policy), the forward_event coroutines scheduled by the transcriber      *)
(* callbacks, and the reply dispatcher stream_gemini_response.             *)
(*                                                                         *)
(* Time is in integer milliseconds (datetime.now() differences times 1000).*)
(* A binary frame is a record [id, len]: id numbers the frame in arrival   *)
(* order so that the bytes of different frames can be told apart, len is   *)
(* its length in bytes.                                                    *)
(*                                                                         *)
(* main_loop (line 31) is taken to be the loop that serves the connection: *)
(* the forward_event coroutines run interleaved with the frame loop, each  *)
(* await being a point where another coroutine may run.  A write to the    *)
(* client connection takes effect at the call, before the suspension.      *)
(* The branches of the frame loop that await only client writes (start,    *)
(* stop, binary, invalid) are one step each; so is the way out of the loop *)
(* by an exception (the except clause and finally of ws_handler).  The     *)
(* relay of a speak: frame is one step for each read of the synthesis      *)
(* connection.                                                             *)
(*                                                                         *)
(* The routes /upload, /set_settings, /set_keys and /reset_settings write  *)
(* the module globals KNOWLEDGE_BASE, USER_SETTINGS, USER_API_KEYS and     *)
(* USER_OVERRIDE_ENV without a suspension in between: one step each.       *)
(* A text is a sequence of tokens, pieces of the string that the code's    *)
(* tests never split: words, " " for whitespace, marks of punctuation.     *)
(***************************************************************************)
EXTENDS Integers, Sequences, FiniteSets, TLC

\* ---------------------------------------------------------------- bounds
MaxFrames == 4          \* client frames processed on one connection
MaxTicks == 3           \* advances of the clock
MaxEvents == 3          \* events the transcription service delivers
MaxFinals == 1          \* final transcripts among them
MaxChunks == 1          \* frames the synthesis service sends for one request
MaxTexts == 1           \* text: frames a client sends
MaxRelay == 2           \* frames the synthesis service sends in the relay specification
TickSteps == {50, 1000} \* amounts by which the clock advances
FrameLens == {44100, 88200} \* lengths of the binary frames a client sends

\* ------------------------------------------------------------- constants
SAMPLE_RATE == 44100
MIN_AUDIO_DURATION_MS == 1000
MIN_BUFFER_SIZE == ((SAMPLE_RATE * MIN_AUDIO_DURATION_MS) \div 1000) * 2
FLUSH_INTERVAL_MS == 100
None == -1              \* Python's None for start_time

VARIABLES
    now,            \* datetime.now(), ms
    nticks,         \* advances of the clock so far
    pc,             \* position of ws_handler: "loop" | "text" (inside
                    \* stream_gemini_response) | "speak_first" | "speak_more"
                    \* (inside the relay of a speak: frame) | "closed"
    ws,             \* client connection: "open" | "closed"
    transcriber,    \* bridge connection: "connected" | "closed"
    audio_buffer,   \* Seq of frames
    last_send_time, \* ms
    start_time,     \* ms or None
    elapsed_ms,     \* the local elapsed_ms of the last stop / binary frame
    USER_SETTINGS,  \* the settings the orchestrator reads
    api_keys,       \* the key names with a key in the environment (os.getenv)
    frames,         \* history: the client frames processed so far
    sent,           \* history: messages written to the client connection
    streamed,       \* history: the calls of transcriber.stream
    delivered,      \* history: the events the transcription service delivered
                    \* (the on_data / on_error callbacks, in call order)
    tasks,          \* tasks[i]: position of the forward_event coroutine of delivered[i]
    all_transcripts,\* ws_handler.all_transcripts
    final_transcript, \* ws_handler.final_transcript (nonlocal of forward_event)
    disp,           \* disp[o]: the stream_gemini_response call of owner o
    speak,          \* the synthesis relay of the speak: frame processed last
    chat_history,   \* the entries save_chat_history appended to the chat file
    KNOWLEDGE_BASE, \* the names of the uploaded documents, in insertion order
    USER_API_KEYS,  \* the keys set through /set_keys
    USER_OVERRIDE_ENV, \* whether a user key goes before the key of the environment
    requests        \* history: the calls of the settings and upload routes

vars == <<now, nticks, pc, ws, transcriber, audio_buffer, last_send_time, start_time,
          elapsed_ms, USER_SETTINGS, api_keys, frames, sent, streamed,
          delivered, tasks, all_transcripts, final_transcript, disp, speak,
          chat_history, KNOWLEDGE_BASE, USER_API_KEYS, USER_OVERRIDE_ENV, requests>>

\* the state of the frame loop's audio path, and the state of the transcript
\* and reply path
audioVars == <<audio_buffer, last_send_time, start_time, elapsed_ms, streamed>>
bridgeVars == <<delivered, tasks, all_transcripts, final_transcript, disp, chat_history>>
\* the module globals the HTTP routes write, besides USER_SETTINGS
storeVars == <<KNOWLEDGE_BASE, USER_API_KEYS, USER_OVERRIDE_ENV, requests>>

\* --------------------------------------------------------------- helpers
RECURSIVE BufLen(_)
BufLen(buf) == IF buf = <<>> THEN 0 ELSE Head(buf).len + BufLen(Tail(buf))

Last(s) == s[Len(s)]

\* The session state of the spec, read off the control frames processed:
\* RECORDING after a start, IDLE after a stop or before any start.
LastCtl(fs) ==
    LET idx == {i \in 1..Len(fs) : fs[i].kind \in {"start", "stop"}}
    IN  IF idx = {} THEN "none"
        ELSE fs[CHOOSE i \in idx : \A j \in idx : j <= i].kind

Recording(fs) == LastCtl(fs) = "start"

ErrorMsg(d) == [type |-> "error", data |-> d]
TextMsg(d) == [type |-> "text", data |-> d]
SoundAlert(d) == [type |-> "sound_alert", data |-> d]

SoundAlertIfEnabled(d) == IF USER_SETTINGS.enableSound THEN <<SoundAlert(d)>> ELSE <<>>

\* Record of one call transcriber.stream(data): the batch, the branch that made
\* the call ("frame" | "stop"), whether it returned normally, the state of the
\* bridge connection and the last control frame at the time of the call, and
\* the index of the client frame whose processing made the call.
StreamCall(data, via, ok) ==
    [data |-> data, via |-> via, ok |-> ok, bridge |-> transcriber,
     ctl |-> LastCtl(frames), frame |-> Len(frames) + 1]

\* elapsed_ms of the stop branch
StopElapsed(st, t) == IF st # None THEN t - st ELSE 0

ShouldFlushEither(el, buf) == el >= FLUSH_INTERVAL_MS \/ BufLen(buf) >= MIN_BUFFER_SIZE

\* the flush condition of the binary-frame branch
ShouldFlush(el, buf) == el >= FLUSH_INTERVAL_MS /\ BufLen(buf) >= MIN_BUFFER_SIZE

StopFlushesAnySize(buf) == buf # <<>>

\* the final-flush condition of the stop branch
StopFlushes(buf) == buf # <<>> /\ BufLen(buf) >= MIN_BUFFER_SIZE

TooShortWrongThreshold(el) == el < FLUSH_INTERVAL_MS

\* the minimum-duration test of the stop branch
TooShort(el) == el < MIN_AUDIO_DURATION_MS

\* ------------------------------------------ transcript and reply helpers
\* A text is a sequence of tokens: words, and " " for a run of whitespace.
\* The texts of the partial and final transcripts the service delivers, and
\* of text: frames
PartialTexts == {<<" ">>, <<"hello", " ">>}
FinalTexts == {<<"hello", " ", "world">>, <<" ", "find", " ", "news">>}
QueryTexts == {<<"hello">>, <<"search", " ", "news">>}

\* str.strip()
RECURSIVE LStrip(_)
LStrip(t) == IF t # <<>> /\ Head(t) = " " THEN LStrip(Tail(t)) ELSE t
RECURSIVE RStrip(_)
RStrip(t) == IF t # <<>> /\ t[Len(t)] = " " THEN RStrip(SubSeq(t, 1, Len(t) - 1)) ELSE t
Strip(t) == RStrip(LStrip(t))

\* str.lower(), token by token
LowerToken(w) ==
    CASE w = "Search" -> "search"
      [] w = "Summary" -> "summary"
      [] w = "Report" -> "report"
      [] w = "True" -> "true"
      [] OTHER -> w
lower(t) == [i \in 1..Len(t) |-> LowerToken(t[i])]

\* word in text: the tokens of word stand side by side in text
Contains(t, word) ==
    \E i \in 1..(Len(t) - Len(word) + 1) : SubSeq(t, i, i + Len(word) - 1) = word

\* a test for the first cue word alone
CueSearchOnly(t) == Contains(lower(t), <<"search">>)

\* any(word in transcript.lower() for word in ["search", "find", "look up"])
SearchCue(t) ==
    \E word \in {<<"search">>, <<"find">>, <<"look", " ", "up">>} : Contains(lower(t), word)

\* re.sub(r'[^\w\s]', '', s): the tokens that are neither word characters
\* nor whitespace are deleted, and what stood on their two sides is joined
Punctuation == {".", "'", "?", "-"}
RemovePunctuation(t) == SelectSeq(t, LAMBDA w : w \notin Punctuation)

\* set(s.split()): the maximal runs of tokens without whitespace, each the
\* word its tokens spell side by side
split(t) ==
    {SubSeq(t, i, j) : <<i, j>> \in
        {r \in (1..Len(t)) \X (1..Len(t)) :
            /\ r[1] <= r[2]
            /\ \A k \in r[1]..r[2] : t[k] # " "
            /\ r[1] = 1 \/ t[r[1] - 1] = " "
            /\ r[2] = Len(t) \/ t[r[2] + 1] = " "}}

\* set(re.sub(r'[^\w\s]', '', s.lower()).split()) (lines 386, 388)
Words(s) == split(RemovePunctuation(lower(s)))

\* f"Summarize the content of the file '{filename}'" (line 390)
SummarizeFile(filename) ==
    <<"Summarize", " ", "the", " ", "content", " ", "of", " ", "the", " ", "file", " ", "'">>
        \o filename \o <<"'">>

\* the callers of stream_gemini_response: 0 is the frame loop (a text: frame),
\* i > 0 the forward_event coroutine of delivered[i]
Owners == 0..MaxEvents

\* transcript is original_transcript and query the local transcript after
\* line 392;
\* recv and timed_out are history: the frames read from the synthesis
\* connection, each with the state of the client connection at the time of
\* the read, and the number of the read that timed out (0: none)
IdleDisp == [pc |-> "idle", transcript |-> <<>>, query |-> <<>>, voice |-> FALSE,
             branch |-> "none", reply |-> "", chunks |-> 0, recv |-> <<>>,
             timed_out |-> 0]

\* the relay of a speak: frame: frame is the index of that client frame
IdleSpeak == [frame |-> 0, chunks |-> 0, recv |-> <<>>, timed_out |-> 0]

\* a frame read from the synthesis connection
MurfFrame(audio, fin) == [audio |-> audio, is_final |-> fin, ws |-> ws]

\* user_message; ev is history: the index of the delivered event whose
\* forward_event coroutine sent it, 0 for the echo of stream_gemini_response
UserMessage(t, fin, e) == [type |-> "user_message", data |-> t, is_final |-> fin, ev |-> e]
TurnEnded == [type |-> "turn_ended"]
\* data stands for the payload: the request (its owner, or the index of the
\* speak: frame) and the number of the synthesis frame that carried it
AudioMsg(n, fin) == [type |-> "audio", data |-> n, is_final |-> fin]
SpeakAudioMsg(n, fin) == [type |-> "speak_audio", data |-> n, is_final |-> fin]
ReplyMsg(kind, d) == [type |-> kind, data |-> d]

\* the defaults of USER_SETTINGS (lines 62-76, and again 288-302);
\* playbackSpeed 1.0 is written 1
DefaultSettings ==
    [voiceId |-> "en-IN-alia", playbackSpeed |-> 1, conversationType |-> "casual",
     micSensitivity |-> 50, audioQuality |-> "medium", autoSaveHistory |-> TRUE,
     includeKnowledgeBase |-> TRUE, enableSearch |-> TRUE, maxSearchResults |-> 3,
     enableSound |-> TRUE, notificationDuration |-> 4, theme |-> "dark",
     accentColor |-> "orange"]

\* USER_API_KEYS = {} (line 60)
NoKeys == [k \in {} |-> ""]

\* the key names of get_api_key
AllKeys == {"aai_api_key", "gemini_api_key", "murf_api_key", "tavily_api_key",
            "zapier_webhook_url"}

\* get_api_key (lines 116-136): the user's key when it goes first, else the
\* key of the environment, else the user's key, else ""
get_api_key(key_name) ==
    LET user_key == IF key_name \in DOMAIN USER_API_KEYS THEN USER_API_KEYS[key_name]
                    ELSE ""
    IN IF USER_OVERRIDE_ENV /\ user_key # "" THEN user_key
       ELSE IF key_name \in api_keys THEN "env"
       ELSE user_key

\* ------------------------------------------------------------------ Init
\* the state of a new session, but for the keys of the environment
NewSession ==
    /\ now = 0
    /\ nticks = 0
    /\ pc = "loop"
    /\ ws = "open"
    /\ transcriber = "connected"
    /\ audio_buffer = <<>>
    /\ last_send_time = 0
    /\ start_time = None
    /\ elapsed_ms = 0
    /\ USER_SETTINGS = DefaultSettings
    /\ frames = <<>>
    /\ sent = <<>>
    /\ streamed = <<>>
    /\ delivered = <<>>
    /\ tasks = <<>>
    /\ all_transcripts = <<>>
    /\ final_transcript = <<>>
    /\ disp = [o \in Owners |-> IdleDisp]
    /\ speak = IdleSpeak
    /\ chat_history = <<>>
    /\ KNOWLEDGE_BASE = <<>>
    /\ USER_API_KEYS = NoKeys
    /\ USER_OVERRIDE_ENV = FALSE
    /\ requests = <<>>

Init == NewSession /\ api_keys = AllKeys

\* --------------------------------------------------------------- actions
CanReceive == pc = "loop" /\ Len(frames) < MaxFrames

FinallyLeavesBridge ==
    /\ pc' = "closed"
    /\ transcriber' = transcriber
    /\ ws' = "closed"

FinallyKeepsLoop ==
    /\ pc' = pc
    /\ transcriber' = "closed"
    /\ ws' = "closed"

\* finally: transcriber.close(); websocket.close()
Finally ==
    /\ pc' = "closed"
    /\ transcriber' = "closed"
    /\ ws' = "closed"

Tick ==
    \E d \in TickSteps :
        /\ nticks < MaxTicks
        /\ nticks' = nticks + 1
        /\ now' = now + d
        /\ UNCHANGED <<pc, ws, transcriber, audio_buffer, last_send_time,
                       start_time, elapsed_ms, USER_SETTINGS, api_keys, storeVars, frames, sent, streamed, speak>>
        /\ UNCHANGED bridgeVars

\* data == "start"
ClientStart ==
    /\ CanReceive
    /\ frames' = Append(frames, [kind |-> "start", len |-> 0])
    /\ start_time' = now
    /\ sent' = sent \o <<TextMsg("Started transcription")>> \o SoundAlertIfEnabled("start")
    /\ UNCHANGED <<now, nticks, pc, ws, transcriber, audio_buffer, last_send_time,
                   elapsed_ms, USER_SETTINGS, api_keys, storeVars, streamed, speak>>
    /\ UNCHANGED bridgeVars

\* data == "stop"; ok: whether transcriber.stream returns normally
ClientStop ==
    \E ok \in BOOLEAN :
        LET el == StopElapsed(start_time, now) IN
        /\ CanReceive
        /\ frames' = Append(frames, [kind |-> "stop", len |-> 0])
        /\ elapsed_ms' = el
        /\ IF TooShort(el)
           THEN /\ ok
                /\ sent' = sent \o <<ErrorMsg("Recording too short")>>
                              \o <<TextMsg("Stopped transcription")>>
                              \o SoundAlertIfEnabled("stop")
                /\ transcriber' = "closed"
                /\ UNCHANGED <<pc, ws, streamed>>
           ELSE IF StopFlushes(audio_buffer)
           THEN /\ streamed' = Append(streamed, StreamCall(audio_buffer, "stop", ok))
                /\ IF ok
                   THEN /\ sent' = sent \o <<TextMsg("Stopped transcription")>>
                                     \o SoundAlertIfEnabled("stop")
                        /\ transcriber' = "closed"
                        /\ UNCHANGED <<pc, ws>>
                   ELSE /\ sent' = sent \o <<ErrorMsg("WebSocket error")>>
                        /\ Finally
           ELSE /\ ok
                /\ sent' = sent \o <<ErrorMsg("Insufficient audio data")>>
                              \o <<TextMsg("Stopped transcription")>>
                              \o SoundAlertIfEnabled("stop")
                /\ transcriber' = "closed"
                /\ UNCHANGED <<pc, ws, streamed>>
        /\ UNCHANGED <<now, nticks, audio_buffer, last_send_time, start_time, USER_SETTINGS,
                       api_keys, storeVars, speak>>
        /\ UNCHANGED bridgeVars

\* isinstance(data, bytes); ok: whether transcriber.stream returns normally
ClientBinary ==
    \E n \in FrameLens, ok \in BOOLEAN :
        LET f == [id |-> Len(frames) + 1, len |-> n]
            buf == Append(audio_buffer, f)
            el == now - last_send_time
        IN
        /\ CanReceive
        /\ frames' = Append(frames, [kind |-> "bytes", len |-> n])
        /\ elapsed_ms' = el
        /\ IF ShouldFlush(el, buf)
           THEN /\ streamed' = Append(streamed, StreamCall(buf, "frame", ok))
                /\ IF ok
                   THEN /\ audio_buffer' = <<>>
                        /\ last_send_time' = now
                        /\ UNCHANGED <<pc, ws, transcriber, sent>>
                   ELSE /\ audio_buffer' = buf
                        /\ sent' = sent \o <<ErrorMsg("Audio streaming error")>>
                        /\ Finally
                        /\ UNCHANGED last_send_time
           ELSE /\ ok
                /\ audio_buffer' = buf
                /\ UNCHANGED <<pc, ws, transcriber, sent, streamed, last_send_time>>
        /\ UNCHANGED <<now, nticks, start_time, USER_SETTINGS, api_keys, storeVars, speak>>
        /\ UNCHANGED bridgeVars

\* a frame that carries neither text nor bytes
ClientInvalid ==
    /\ CanReceive
    /\ frames' = Append(frames, [kind |-> "invalid", len |-> 0])
    /\ sent' = sent \o <<ErrorMsg("Invalid data received")>>
    /\ UNCHANGED <<now, nticks, pc, ws, transcriber, audio_buffer, last_send_time,
                   start_time, elapsed_ms, USER_SETTINGS, api_keys, storeVars, streamed, speak>>
    /\ UNCHANGED bridgeVars

\* msg["type"] == "websocket.disconnect"
ClientDisconnect ==
    /\ pc = "loop"
    /\ Finally
    /\ UNCHANGED <<now, nticks, audio_buffer, last_send_time, start_time, elapsed_ms,
                   USER_SETTINGS, api_keys, storeVars, frames, sent, streamed, speak>>
    /\ UNCHANGED bridgeVars

\* ------------------------------------- the reply dispatcher's bookkeeping
\* the variables no transcript or reply step changes
sessionVars == <<now, nticks, ws, transcriber, USER_SETTINGS, api_keys, storeVars, speak>>

\* the caller o is inside stream_gemini_response / has got its result back
OwnerIn(o) ==
    IF o = 0 THEN pc' = "text" /\ UNCHANGED tasks
    ELSE tasks' = [tasks EXCEPT ![o] = "disp"] /\ UNCHANGED pc

OwnerDone(o) ==
    IF o = 0 THEN pc' = "loop" /\ UNCHANGED tasks
    ELSE tasks' = [tasks EXCEPT ![o] = "done"] /\ UNCHANGED pc

\* save_chat_history(chat_id, user_query, ai_response)
save_chat_history(hist, q, r) ==
    IF USER_SETTINGS.autoSaveHistory
    THEN Append(hist, [user_query |-> q, ai_response |-> r])
    ELSE hist

\* a connection that takes messages after it was closed
DispStepOnAnyConnection(o, msgs, d, done, hist, histAtSend) ==
    /\ sent' = sent \o msgs
    /\ disp' = [disp EXCEPT ![o] = d]
    /\ chat_history' = hist
    /\ IF done THEN OwnerDone(o) ELSE OwnerIn(o)

\* One step of the stream_gemini_response call of owner o, up to its next
\* suspension: it sends msgs in order and leaves the call as d (done: the
\* call returns).  hist is the chat history after the step and histAtSend
\* the history when the first message is sent.  On a closed client
\* connection the first send raises, the error report of the except clause
\* raises too and the exception ends the calling coroutine.
DispStep(o, msgs, d, done, hist, histAtSend) ==
    IF msgs = <<>> \/ ws = "open"
    THEN /\ sent' = sent \o msgs
         /\ disp' = [disp EXCEPT ![o] = d]
         /\ chat_history' = hist
         /\ IF done THEN OwnerDone(o) ELSE OwnerIn(o)
    ELSE /\ sent' = sent
         /\ disp' = [disp EXCEPT ![o] = [d EXCEPT !.pc = "done"]]
         /\ chat_history' = histAtSend
         /\ OwnerDone(o)

\* "send to email" in original_transcript.lower() or "email the summary" in
\* original_transcript.lower() (lines 437, 513)
EmailRequested(t) ==
    \/ Contains(lower(t), <<"send", " ", "to", " ", "email">>)
    \/ Contains(lower(t), <<"email", " ", "the", " ", "summary">>)

\* the position after the reply: the webhook is called if the transcript asks
\* for it (in the direct branch only under if accumulated_response, line 507)
AfterReply(d) ==
    IF EmailRequested(d.transcript) /\ (d.reply # "" \/ d.branch = "search")
    THEN "zapier" ELSE "done"

\* a dispatcher that forwards the reply before the audio of the step
FinishReplyFirst(o, d, pre) ==
    LET hist == IF d.reply # "" THEN save_chat_history(chat_history, d.transcript, d.reply)
                ELSE chat_history
        out == IF d.reply # ""
               THEN <<ReplyMsg(IF d.branch = "search" THEN "search" ELSE "response", d.reply)>>
               ELSE <<>>
    IN  DispStep(o, out \o pre, [d EXCEPT !.pc = AfterReply(d)], AfterReply(d) = "done",
                 hist, hist)

\* lines 431-436 / 507-512: persist the exchange and forward the reply
\* (pre: the messages the step sent before)
Finish(o, d, pre) ==
    LET hist == IF d.reply # "" THEN save_chat_history(chat_history, d.transcript, d.reply)
                ELSE chat_history
        out == IF d.reply # ""
               THEN <<ReplyMsg(IF d.branch = "search" THEN "search" ELSE "response", d.reply)>>
               ELSE <<>>
    IN  DispStep(o, pre \o out, [d EXCEPT !.pc = AfterReply(d)], AfterReply(d) = "done",
                 hist, IF pre = <<>> THEN hist ELSE chat_history)

\* a frame loop that drops the query of a text: frame
EnterSkipped(o, t, voice) == UNCHANGED <<pc, tasks, sent, disp, chat_history>>

\* lines 365-374: validation and echo of a call by owner o
Enter(o, t, voice) ==
    LET d == [IdleDisp EXCEPT !.transcript = t, !.voice = voice] IN
    IF Strip(t) = <<>>
    THEN DispStep(o, <<ErrorMsg("Invalid query provided")>>, [d EXCEPT !.pc = "done"],
                  TRUE, chat_history, chat_history)
    ELSE DispStep(o, <<UserMessage(t, TRUE, 0)>>, [d EXCEPT !.pc = "echoed"],
                  FALSE, chat_history, chat_history)

\* ---------------------------------------------- the transcription bridge
EventSet ==
    {[kind |-> "error", text |-> <<>>]} \cup
    {[kind |-> "partial", text |-> t] : t \in PartialTexts} \cup
    {[kind |-> "final", text |-> t] : t \in FinalTexts}

\* on_data / on_error: the callback schedules a forward_event coroutine on
\* the session's loop
OnEvent(e) ==
    /\ transcriber = "connected"
    /\ Len(delivered) < MaxEvents
    /\ delivered' = Append(delivered, e)
    /\ tasks' = Append(tasks, "scheduled")
    /\ UNCHANGED <<sessionVars, pc, audioVars, frames, sent,
                   all_transcripts, final_transcript, disp, chat_history>>

Finals(evs) == {i \in 1..Len(evs) : evs[i].kind = "final"}

\* the service delivers any events
Deliver ==
    \E e \in EventSet :
        /\ e.kind = "final" => Cardinality(Finals(delivered)) < MaxFinals
        /\ OnEvent(e)

\* the service delivers the events of one utterance: partial transcripts
\* (and errors), then the final transcript
DeliverUtterance ==
    \E e \in EventSet :
        /\ Finals(delivered) = {}
        /\ OnEvent(e)

Scheduled(ts) == {i \in 1..Len(ts) : ts[i] = "scheduled"}

NewestScheduled(ts) == CHOOSE i \in Scheduled(ts) : \A j \in Scheduled(ts) : j <= i

\* the loop runs the scheduled coroutines first come, first served
NextToStart(ts) == CHOOSE i \in Scheduled(ts) : \A j \in Scheduled(ts) : i <= j

\* forward_event from its start to its first suspension (lines 558-572)
TaskStart ==
    /\ Scheduled(tasks) # {}
    /\ LET i == NextToStart(tasks)
           e == delivered[i]
           txt == Strip(e.text)
       IN
       /\ IF e.kind = "error"
          THEN /\ sent' = IF ws = "open" THEN Append(sent, ErrorMsg("Streaming error")) ELSE sent
               /\ tasks' = [tasks EXCEPT ![i] = "done"]
               /\ UNCHANGED all_transcripts
          ELSE IF txt = <<>>
          THEN /\ tasks' = [tasks EXCEPT ![i] = "done"]
               /\ UNCHANGED <<sent, all_transcripts>>
          ELSE /\ all_transcripts' = Append(all_transcripts, txt)
               /\ sent' = IF ws = "open"
                          THEN Append(sent, UserMessage(txt, e.kind = "final", i))
                          ELSE sent
               /\ tasks' = [tasks EXCEPT ![i] =
                               IF e.kind = "final" /\ ws = "open" THEN "um_sent" ELSE "done"]
    /\ UNCHANGED <<sessionVars, pc, audioVars, frames, delivered,
                   final_transcript, disp, chat_history>>

\* lines 573-576: final_transcript = transcript_text; send turn_ended
TaskTurnEnded(i) ==
    /\ tasks[i] = "um_sent"
    /\ final_transcript' = Strip(delivered[i].text)
    /\ sent' = IF ws = "open" THEN Append(sent, TurnEnded) ELSE sent
    /\ tasks' = [tasks EXCEPT ![i] = IF ws = "open" THEN "te_sent" ELSE "done"]
    /\ UNCHANGED <<sessionVars, pc, audioVars, frames, delivered,
                   all_transcripts, disp, chat_history>>

\* line 577: stream_gemini_response(chat_id, final_transcript, websocket, True)
TaskDispatch(i) ==
    /\ tasks[i] = "te_sent"
    /\ Enter(i, final_transcript, TRUE)
    /\ UNCHANGED <<sessionVars, audioVars, frames, delivered,
                   all_transcripts, final_transcript>>

\* data.startswith("text:") (lines 622-625), q being data[5:]; the frame is
\* recorded with the length of its transcript
TextFrame(q) ==
    /\ pc = "loop"
    /\ Cardinality({k \in 1..Len(frames) : frames[k].kind = "text"}) < MaxTexts
    /\ frames' = Append(frames, [kind |-> "text", len |-> Len(Strip(q))])
    /\ IF Strip(q) # <<>>
       THEN Enter(0, Strip(q), FALSE)
       ELSE UNCHANGED <<pc, tasks, sent, disp, chat_history>>
    /\ UNCHANGED <<sessionVars, audioVars, delivered,
                   all_transcripts, final_transcript>>

ClientText == \E q \in QueryTexts : TextFrame(q)

\* ------------------------------------------------- stream_gemini_response
\* lines 384-392: the knowledge-base rewrite of the query; the first document
\* of KNOWLEDGE_BASE, in insertion order, that shares a word with the query
Overlapping(transcript) ==
    {k \in 1..Len(KNOWLEDGE_BASE) :
        Words(transcript) \cap Words(KNOWLEDGE_BASE[k]) # {}}

KbRewrite(transcript) ==
    IF USER_SETTINGS.includeKnowledgeBase /\ Contains(lower(transcript), <<"summary">>)
          /\ Overlapping(transcript) # {}
    THEN LET first == CHOOSE k \in Overlapping(transcript) :
                          \A j \in Overlapping(transcript) : k <= j
         IN SummarizeFile(KNOWLEDGE_BASE[first])
    ELSE transcript

\* lines 376-396 and 447-470: the key, the choice of branch, the model call.
\* Without a key the client gets the error of line 380 and the error that
\* get_api_key left to a task of its own (lines 131-135), which runs at the
\* suspension of line 380.
DispResolve(o) ==
    LET d == [disp[o] EXCEPT !.query = KbRewrite(disp[o].transcript)] IN
    /\ d.pc = "echoed"
    /\ IF get_api_key("gemini_api_key") = ""
       THEN DispStep(o, <<ErrorMsg("No valid Gemini API key found"),
                          ErrorMsg("No gemini_api_key found")>>,
                     [disp[o] EXCEPT !.pc = "done"], TRUE, chat_history, chat_history)
       ELSE IF USER_SETTINGS.enableSearch /\ SearchCue(d.query)
       THEN DispStep(o, <<>>, [d EXCEPT !.pc = "searching", !.branch = "search"],
                     FALSE, chat_history, chat_history)
       ELSE LET g == [d EXCEPT !.branch = "direct", !.reply = "reply"] IN
            IF d.voice
            THEN DispStep(o, <<>>, [g EXCEPT !.pc = "tts_first"], FALSE,
                          chat_history, chat_history)
            ELSE Finish(o, g, <<>>)
    /\ UNCHANGED <<sessionVars, audioVars, frames, delivered,
                   all_transcripts, final_transcript>>

\* error_msg of tavily_search (line 359)
SearchError == "Error: Unable to perform web search"

\* tavily_search returns (lines 341-361, 396-397)
DispSearchDone(o) ==
    \E res \in {"results", "No search results found.", SearchError} :
        LET d == disp[o]
            g == [d EXCEPT !.reply = res]
            pre == IF res = SearchError THEN <<ErrorMsg(res)>> ELSE <<>>
        IN
        /\ d.pc = "searching"
        /\ IF d.voice
           THEN DispStep(o, pre, [g EXCEPT !.pc = "tts_first"], FALSE,
                         chat_history, chat_history)
           ELSE Finish(o, g, pre)
        /\ UNCHANGED <<sessionVars, audioVars, frames, delivered,
                       all_transcripts, final_transcript>>

EveryReadUnguarded(p) == TRUE

\* the read made at position p of a relay is outside the try block of the
\* relay loop (lines 404, 479, 635; the later reads are lines 416-430,
\* 491-505, 646-658): its TimeoutError leaves the relay as an exception
FirstRead(p) == p \in {"tts_first", "speak_first"}

ForwardsEmptyToo(audio, m) == <<m>>

\* what a relay forwards for a frame it read (lines 406-413, 481-488,
\* 637-644): m, the frame's payload tagged with its terminal flag, unless the
\* payload is empty
RelayOut(audio, m) == IF audio THEN <<m>> ELSE <<>>

\* one read of the synthesis connection (lines 404-430, 479-505): a frame with
\* or without audio and with or without the terminal flag, or a timeout; the
\* service sends at most max frames
TtsRecv(o, max) ==
    \E timeout \in BOOLEAN, audio \in BOOLEAN, fin \in BOOLEAN :
        LET d == disp[o]
            n == d.chunks + 1
            g == [d EXCEPT !.chunks = n, !.recv = Append(@, MurfFrame(audio, fin))]
            out == RelayOut(audio, AudioMsg(<<o, n>>, fin))
            t == [d EXCEPT !.timed_out = n]
        IN
        /\ d.pc \in {"tts_first", "tts_more"}
        /\ timeout => (audio /\ fin)
        /\ ~timeout => d.chunks < max
        /\ IF timeout
           THEN IF FirstRead(d.pc)
                THEN DispStep(o, <<ErrorMsg("Error processing response")>>,
                              [t EXCEPT !.pc = "done"], TRUE, chat_history, chat_history)
                ELSE Finish(o, t, <<>>)
           ELSE IF fin
                THEN Finish(o, g, out)
                ELSE DispStep(o, out, [g EXCEPT !.pc = "tts_more"], FALSE,
                              chat_history, chat_history)
        /\ UNCHANGED <<sessionVars, audioVars, frames, delivered,
                       all_transcripts, final_transcript>>

DispTtsRecv(o) == TtsRecv(o, MaxChunks)

\* the webhook has answered (lines 437-444, 513-520).  Without a URL for it
\* session.post raises, and the client gets the error of the except clause
\* and the error get_api_key left to a task of its own.
ZapierMsg == [type |-> "zapier", data |-> "Email sent successfully"]

DispZapier(o) ==
    LET d == disp[o] IN
    /\ d.pc = "zapier"
    /\ DispStep(o, IF get_api_key("zapier_webhook_url") = ""
                   THEN <<ErrorMsg("Error processing response"),
                          ErrorMsg("No zapier_webhook_url found")>>
                   ELSE <<ZapierMsg>>,
                [d EXCEPT !.pc = "done"], TRUE, chat_history, chat_history)
    /\ UNCHANGED <<sessionVars, audioVars, frames, delivered,
                   all_transcripts, final_transcript>>

\* an exception while awaiting the search, the synthesis service or the
\* webhook (lines 523-526)
DispFail(o) ==
    LET d == disp[o] IN
    /\ d.pc \in {"searching", "tts_first", "tts_more", "zapier"}
    /\ DispStep(o, <<ErrorMsg("Error processing response")>>,
                [d EXCEPT !.pc = "done"], TRUE, chat_history, chat_history)
    /\ UNCHANGED <<sessionVars, audioVars, frames, delivered,
                   all_transcripts, final_transcript>>

\* ------------------------------------------------ speak: (lines 626-658)
SpeakTexts == {<<"hello">>, <<" ">>}

\* the except clause of ws_handler (lines 677-679), then its finally
OuterExcept ==
    /\ sent' = sent \o <<ErrorMsg("WebSocket error")>>
    /\ Finally

\* data.startswith("speak:"): the request is sent to the synthesis service
\* (lines 626-634).  Without a key for it the client gets the error that
\* get_api_key left to a task of its own (lines 131-135), which runs at the
\* suspension of line 630.
ClientSpeak ==
    \E q \in SpeakTexts :
        /\ pc = "loop"
        /\ \A k \in 1..Len(frames) : frames[k].kind # "speak"
        /\ frames' = Append(frames, [kind |-> "speak", len |-> 0])
        /\ IF Strip(q) # <<>>
           THEN /\ pc' = "speak_first"
                /\ speak' = [IdleSpeak EXCEPT !.frame = Len(frames) + 1]
                /\ sent' = IF get_api_key("murf_api_key") = ""
                           THEN Append(sent, ErrorMsg("No murf_api_key found"))
                           ELSE sent
           ELSE UNCHANGED <<pc, speak, sent>>
        /\ UNCHANGED <<now, nticks, ws, transcriber, USER_SETTINGS, api_keys, storeVars, audioVars,
                       bridgeVars>>

\* one read of the synthesis connection in the speak: branch (lines 635-658)
SpeakRecv ==
    \E timeout \in BOOLEAN, audio \in BOOLEAN, fin \in BOOLEAN :
        LET n == speak.chunks + 1
            out == RelayOut(audio, SpeakAudioMsg(<<speak.frame, n>>, fin))
        IN
        /\ pc \in {"speak_first", "speak_more"}
        /\ timeout => (audio /\ fin)
        /\ ~timeout => speak.chunks < MaxRelay
        /\ IF timeout
           THEN /\ speak' = [speak EXCEPT !.timed_out = n]
                /\ IF FirstRead(pc)
                   THEN OuterExcept
                   ELSE pc' = "loop" /\ UNCHANGED <<sent, ws, transcriber>>
           ELSE /\ speak' = [speak EXCEPT !.chunks = n,
                                          !.recv = Append(@, MurfFrame(audio, fin))]
                /\ sent' = sent \o out
                /\ pc' = IF fin THEN "loop" ELSE "speak_more"
                /\ UNCHANGED <<ws, transcriber>>
        /\ UNCHANGED <<now, nticks, USER_SETTINGS, api_keys, storeVars, audioVars, frames, bridgeVars>>

\* an exception of the synthesis connection in the speak: branch
SpeakFail ==
    /\ pc \in {"speak_first", "speak_more"}
    /\ OuterExcept
    /\ UNCHANGED <<now, nticks, USER_SETTINGS, api_keys, storeVars, audioVars, frames, speak,
                   bridgeVars>>

\* the session after start and one timed flush, with the bridge connected
StartedSession ==
    /\ now = 100
    /\ nticks = 2
    /\ pc = "loop"
    /\ ws = "open"
    /\ transcriber = "connected"
    /\ audio_buffer = <<>>
    /\ last_send_time = 100
    /\ start_time = 0
    /\ elapsed_ms = 100
    /\ frames = <<[kind |-> "start", len |-> 0], [kind |-> "bytes", len |-> 88200]>>
    /\ sent = <<TextMsg("Started transcription"), SoundAlert("start")>>
    /\ streamed = <<[data |-> <<[id |-> 2, len |-> 88200]>>, via |-> "frame", ok |-> TRUE,
                     bridge |-> "connected", ctl |-> "start", frame |-> 2]>>
    /\ delivered = <<>>
    /\ tasks = <<>>
    /\ all_transcripts = <<>>
    /\ final_transcript = <<>>
    /\ disp = [o \in Owners |-> IdleDisp]
    /\ speak = IdleSpeak
    /\ chat_history = <<>>
    /\ requests = <<>>

\* ... with the settings, the key store and the knowledge base as at import
BridgeState ==
    /\ StartedSession
    /\ USER_SETTINGS = DefaultSettings
    /\ KNOWLEDGE_BASE = <<>>
    /\ USER_API_KEYS = NoKeys
    /\ USER_OVERRIDE_ENV = FALSE

InitBridge == BridgeState /\ api_keys = AllKeys

NextBridge ==
    \/ Deliver
    \/ TaskStart
    \/ \E i \in 1..MaxEvents : i <= Len(tasks) /\ TaskTurnEnded(i)
    \/ \E i \in 1..MaxEvents : i <= Len(tasks) /\ TaskDispatch(i)
    \/ ClientText
    \/ ClientDisconnect
    \/ \E o \in Owners : DispResolve(o)
    \/ \E o \in Owners : DispSearchDone(o)
    \/ \E o \in Owners : DispTtsRecv(o)
    \/ \E o \in Owners : DispFail(o)

SpecBridge == InitBridge /\ [][NextBridge]_vars

\* the transcript path for one utterance; the client sends no frame
NextUtterance ==
    \/ DeliverUtterance
    \/ TaskStart
    \/ \E i \in 1..MaxEvents : i <= Len(tasks) /\ TaskTurnEnded(i)
    \/ \E i \in 1..MaxEvents : i <= Len(tasks) /\ TaskDispatch(i)
    \/ \E o \in Owners : DispResolve(o)
    \/ \E o \in Owners : DispSearchDone(o)
    \/ \E o \in Owners : DispTtsRecv(o)
    \/ \E o \in Owners : DispFail(o)

SpecUtterance == InitBridge /\ [][NextUtterance]_vars

Next ==
    \/ Tick
    \/ ClientStart
    \/ ClientStop
    \/ ClientBinary
    \/ ClientInvalid
    \/ ClientDisconnect

Spec == Init /\ [][Next]_vars

\* ------------------------------------------------------- claims C1 .. C8
\* what the step from the current state to the next one processed
NewFrame == Len(frames') = Len(frames) + 1
BinaryStep == NewFrame /\ Last(frames').kind = "bytes"
StartStep == NewFrame /\ Last(frames').kind = "start"
StopStep == NewFrame /\ Last(frames').kind = "stop"
NewlySent == SubSeq(sent', Len(sent) + 1, Len(sent'))
SentInStep(m) == \E i \in 1..Len(NewlySent) : NewlySent[i] = m
InLog(m) == \E i \in 1..Len(sent) : sent[i] = m
FrameIds(batch) == {batch[i].id : i \in 1..Len(batch)}

\* C1: on a binary frame the buffer (with the frame appended) is handed to
\* the transcription bridge if and only if at least 100 ms have passed since
\* the last flush and the buffer holds at least MIN_BUFFER_SIZE bytes;
\* otherwise the step hands nothing to the bridge.
C1_FlushIffTimerAndSize ==
    [][BinaryStep =>
        LET buf == Append(audio_buffer, [id |-> Len(frames'), len |-> Last(frames').len])
            both == /\ now - last_send_time >= 100
                    /\ BufLen(buf) >= 88200
        IN  /\ both => /\ Len(streamed') = Len(streamed) + 1
                       /\ Last(streamed').data = buf
            /\ ~both => streamed' = streamed]_vars

\* a timed flush happened on a frame, of a batch of two frames: the first of
\* them had been appended without a flush
C1_Witness ==
    /\ streamed # <<>>
    /\ Last(streamed).via = "frame"
    /\ Len(Last(streamed).data) = 2
    /\ elapsed_ms >= 100

\* C2: a stop processed less than 1000 ms after the recorded start sends the
\* "too short" error and hands nothing to the bridge, whatever the buffer
\* holds.
C2_EarlyStopTooShort ==
    [][(StopStep /\ start_time # None /\ now - start_time < 1000) =>
        /\ SentInStep(ErrorMsg("Recording too short"))
        /\ streamed' = streamed]_vars

\* a stop was rejected as too short although the buffer held a full batch
C2_Witness ==
    /\ frames # <<>>
    /\ Last(frames).kind = "stop"
    /\ start_time # None
    /\ elapsed_ms < 1000
    /\ BufLen(audio_buffer) >= 88200
    /\ streamed = <<>>
    /\ InLog(ErrorMsg("Recording too short"))

\* C3: a stop processed at least 1000 ms after the recorded start with fewer
\* than MIN_BUFFER_SIZE bytes buffered (an empty buffer included) sends the
\* "insufficient audio" error and hands nothing to the bridge.
C3_LateStopInsufficient ==
    [][(StopStep /\ start_time # None /\ now - start_time >= 1000
            /\ BufLen(audio_buffer) < 88200) =>
        /\ SentInStep(ErrorMsg("Insufficient audio data"))
        /\ streamed' = streamed]_vars

\* a stop after a full second found a non-empty buffer below the minimum
C3_Witness ==
    /\ frames # <<>>
    /\ Last(frames).kind = "stop"
    /\ start_time # None
    /\ elapsed_ms >= 1000
    /\ audio_buffer # <<>>
    /\ BufLen(audio_buffer) < 88200
    /\ InLog(ErrorMsg("Insufficient audio data"))

\* the client frame processed last made a call of transcriber.stream that
\* returned normally
JustFlushed ==
    /\ streamed # <<>>
    /\ Last(streamed).ok
    /\ Last(streamed).frame = Len(frames)

\* C4: after every successful flush (timed, or final on stop) the audio
\* buffer is empty, and no frame's bytes are handed to the bridge twice.
C4_BufferClearedNeverFlushedTwice ==
    /\ JustFlushed => audio_buffer = <<>>
    /\ \A i, j \in 1..Len(streamed) :
          i < j => FrameIds(streamed[i].data) \cap FrameIds(streamed[j].data) = {}

\* the indices of the stop frames that were rejected (no final flush)
RejectedStops ==
    {k \in 1..Len(frames) :
        /\ frames[k].kind = "stop"
        /\ \A i \in 1..Len(streamed) : streamed[i].frame # k}

\* C5: a stop that reports "too short" or "insufficient audio" discards the
\* buffered audio: the buffer is empty after it, and no later frame or stop
\* hands bytes received before it to the bridge.
C5_RejectedStopDiscardsBuffer ==
    /\ (frames # <<>> /\ Len(frames) \in RejectedStops) => audio_buffer = <<>>
    /\ \A k \in RejectedStops : \A i \in 1..Len(streamed) :
          streamed[i].frame > k => \A id \in FrameIds(streamed[i].data) : id > k

\* C6: every recording turn has an open bridge connection: a flush made in a
\* turn begun by a start, also one after an earlier stop closed the bridge,
\* goes to a connected bridge.
C6_EachTurnHasOpenBridge ==
    \A i \in 1..Len(streamed) :
        streamed[i].ctl = "start" => streamed[i].bridge = "connected"

\* C7: start takes effect only in IDLE and stop only in RECORDING: a start
\* while RECORDING keeps the recorded start time, and a stop outside
\* RECORDING neither flushes nor closes the bridge.
C7_StartStopGuarded ==
    [][/\ (StartStep /\ Recording(frames)) => start_time' = start_time
       /\ (StopStep /\ ~Recording(frames)) =>
              (streamed' = streamed /\ transcriber' = transcriber)]_vars

\* C8: between a stop and the next start no binary frame triggers a flush
\* attempt.
C8_NoFlushAfterStop ==
    \A i \in 1..Len(streamed) :
        streamed[i].via = "frame" => streamed[i].ctl # "stop"

\* ------------------------------------------------------ claims C9, C10
IsForwarded(m) == m.type = "user_message" /\ m.ev > 0

\* the user_messages the forward_event coroutines sent, in the order sent
Forwarded == SelectSeq(sent, IsForwarded)

\* the delivered events that carry a non-blank transcript
Transcripts ==
    {j \in 1..Len(delivered) :
        delivered[j].kind # "error" /\ Strip(delivered[j].text) # <<>>}

\* C9: the client receives the user_messages of the delivered transcripts in
\* delivery order, whatever the interleaving of the forward_event coroutines:
\* the p-th message forwarded is that of the p-th transcript delivered, so
\* that every partial of an utterance precedes its final user_message.
C9_PartialsBeforeFinal ==
    \A p \in 1..Len(Forwarded) :
        LET m == Forwarded[p] IN
        /\ m.ev \in Transcripts
        /\ Cardinality({j \in Transcripts : j < m.ev}) = p - 1
        /\ m.data = Strip(delivered[m.ev].text)
        /\ m.is_final = (delivered[m.ev].kind = "final")

\* a final user_message went out, after the user_message of a partial
\* delivered before it
C9_Witness ==
    /\ Len(Forwarded) >= 2
    /\ Forwarded[Len(Forwarded)].is_final
    /\ ~Forwarded[1].is_final
    /\ Forwarded[1].ev < Forwarded[Len(Forwarded)].ev

InProgress == {o \in Owners : disp[o].pc \notin {"idle", "done"}}

\* C10: at most one call of stream_gemini_response is in progress on the
\* connection at any time.
C10_OneDispatcherAtATime == Cardinality(InProgress) <= 1

\* ---------------------------------------------------------- claim C11
MaxTurns == 2           \* final transcripts of the turn-by-turn specification

\* the service delivers the final transcript of one more utterance
DeliverFinal ==
    \E t \in FinalTexts :
        /\ Cardinality(Finals(delivered)) < MaxTurns
        /\ OnEvent([kind |-> "final", text |-> t])

\* the transcript path for a sequence of final transcripts; the client sends
\* no frame
NextTurns ==
    \/ DeliverFinal
    \/ TaskStart
    \/ \E i \in 1..MaxEvents : i <= Len(tasks) /\ TaskTurnEnded(i)
    \/ \E i \in 1..MaxEvents : i <= Len(tasks) /\ TaskDispatch(i)
    \/ \E o \in Owners : DispResolve(o)
    \/ \E o \in Owners : DispSearchDone(o)
    \/ \E o \in Owners : DispTtsRecv(o)
    \/ \E o \in Owners : DispFail(o)

SpecTurns == InitBridge /\ [][NextTurns]_vars

\* the forward_event coroutines that have called stream_gemini_response
Called == {i \in 1..Len(tasks) : disp[i].pc # "idle"}

\* C11: every final transcript event is forwarded as a final user_message
\* and then causes exactly one call of the reply dispatcher for that event:
\* the call a forward_event coroutine makes is made for a final event, after
\* its final user_message, and with the transcript of that event; a
\* coroutine that has ended on a live connection has made the call if its
\* event was final.
C11_FinalDispatchedOnceForItsEvent ==
    /\ \A i \in Called :
          /\ delivered[i].kind = "final"
          /\ InLog(UserMessage(Strip(delivered[i].text), TRUE, i))
          /\ disp[i].transcript = Strip(delivered[i].text)
    /\ \A i \in 1..Len(tasks) :
          (tasks[i] = "done" /\ delivered[i].kind = "final" /\ ws = "open")
              => i \in Called

\* ---------------------------------------------------------- claim C12
DispRelayRecv(o) == TtsRecv(o, MaxRelay)

\* the service delivers the final transcript of the connection's only
\* utterance
DeliverOnlyFinal ==
    \E t \in FinalTexts :
        /\ delivered = <<>>
        /\ OnEvent([kind |-> "final", text |-> t])

\* the synthesis relays: one voice turn and the speak: frames of the client
NextRelay ==
    \/ DeliverOnlyFinal
    \/ TaskStart
    \/ \E i \in 1..MaxEvents : i <= Len(tasks) /\ TaskTurnEnded(i)
    \/ \E i \in 1..MaxEvents : i <= Len(tasks) /\ TaskDispatch(i)
    \/ \E o \in Owners : DispResolve(o)
    \/ \E o \in Owners : DispSearchDone(o)
    \/ \E o \in Owners : DispRelayRecv(o)
    \/ \E o \in Owners : DispFail(o)
    \/ ClientSpeak
    \/ SpeakRecv
    \/ SpeakFail

SpecRelay == InitBridge /\ [][NextRelay]_vars

\* the messages a relay owes the client for the frames of the receive log
\* recv from the k-th on: one for every frame with a payload that was read
\* while the client connection was open, in the order of the log
RECURSIVE Owed(_, _, _, _)
Owed(recv, k, req, isSpeak) ==
    IF k > Len(recv) THEN <<>>
    ELSE (IF recv[k].audio /\ recv[k].ws = "open"
          THEN <<IF isSpeak THEN SpeakAudioMsg(<<req, k>>, recv[k].is_final)
                 ELSE AudioMsg(<<req, k>>, recv[k].is_final)>>
          ELSE <<>>) \o Owed(recv, k + 1, req, isSpeak)

\* the audio messages sent for the request req, in the order sent
AudioOf(req, isSpeak) ==
    LET Test(m) == /\ m.type = (IF isSpeak THEN "speak_audio" ELSE "audio")
                   /\ m.data[1] = req
    IN  SelectSeq(sent, Test)

\* no frame of the log but the last carries the terminal flag
TerminalOnlyLast(recv) == \A k \in 1..Len(recv) : recv[k].is_final => k = Len(recv)

\* the last frame read carried the terminal flag
Terminated(recv) == recv # <<>> /\ Last(recv).is_final

\* C12: for every synthesis request (the reply or search relay of a voice
\* turn, the relay of a speak: frame) the audio messages sent to the client
\* are exactly the frames read with a non-empty payload, once each, in the
\* order read and tagged with the frame's terminal flag; frames without
\* payload are not forwarded; a frame with the terminal flag, with or
\* without payload, is the last one read, and the relay has ended after it.
C12_RelayForwardsAudioInOrder ==
    /\ \A o \in Owners :
          /\ AudioOf(o, FALSE) = Owed(disp[o].recv, 1, o, FALSE)
          /\ TerminalOnlyLast(disp[o].recv)
          /\ Terminated(disp[o].recv) => disp[o].pc \notin {"tts_first", "tts_more"}
    /\ AudioOf(speak.frame, TRUE) = Owed(speak.recv, 1, speak.frame, TRUE)
    /\ TerminalOnlyLast(speak.recv)
    /\ Terminated(speak.recv) => pc \notin {"speak_first", "speak_more"}

\* a voice turn relayed two frames with payload, the second terminal, and
\* forwarded both; a speak: relay read a frame without payload and ended on
\* a terminal frame without payload, forwarding nothing
C12_Witness ==
    /\ \E o \in Owners :
          /\ Len(disp[o].recv) = 2
          /\ disp[o].recv[1].audio /\ disp[o].recv[2].audio
          /\ disp[o].recv[2].is_final
          /\ Len(AudioOf(o, FALSE)) = 2
    /\ Len(speak.recv) = 2
    /\ ~speak.recv[1].audio /\ ~speak.recv[2].audio
    /\ speak.recv[2].is_final
    /\ ws = "open"
    /\ pc = "loop"

\* ---------------------------------------------------- claims C13 .. C15
\* the exchange of the call d is in the chat file
Persisted(d) ==
    \E k \in 1..Len(chat_history) :
        chat_history[k] = [user_query |-> d.transcript, ai_response |-> d.reply]

\* the reply of the call d went to the client as its response or search
\* message
ReplyForwarded(d) ==
    InLog(ReplyMsg(IF d.branch = "search" THEN "search" ELSE "response", d.reply))

\* C13: a voice turn whose first synthesis read timed out sends no error
\* message for it and is not failed: its reply is persisted (saving is
\* enabled) and forwarded as its response or search message.
C13_FirstReadTimeoutKeepsTurn ==
    \A o \in Owners :
        (disp[o].timed_out = 1 /\ disp[o].pc = "done" /\ ws = "open") =>
            /\ ~InLog(ErrorMsg("Error processing response"))
            /\ Persisted(disp[o])
            /\ ReplyForwarded(disp[o])

\* C14: a synthesis read timeout of a speak: request, on the first or on a
\* later read, ends only that attempt: the client connection stays open,
\* the bridge is not closed and the frame loop goes on.
C14_SpeakTimeoutKeepsSession ==
    speak.timed_out > 0 =>
        /\ ws = "open"
        /\ transcriber = "connected"
        /\ pc # "closed"

\* C15: in a voice turn a timeout of the second or a later synthesis read
\* ends the relay without error: the step sends nothing but the reply, as
\* the turn's response or search message, after persisting the exchange
\* (saving enabled); the audio forwarded before stands and the call returns.
C15_LaterReadTimeoutKeepsTurn ==
    [][\A o \in Owners :
        (disp[o].timed_out = 0 /\ disp'[o].timed_out > 1 /\ ws = "open") =>
            /\ SubSeq(sent', 1, Len(sent)) = sent
            /\ NewlySent = <<ReplyMsg(IF disp[o].branch = "search" THEN "search"
                                      ELSE "response", disp[o].reply)>>
            /\ USER_SETTINGS.autoSaveHistory =>
                   chat_history' = Append(chat_history,
                                          [user_query |-> disp[o].transcript,
                                           ai_response |-> disp[o].reply])
            /\ disp'[o].pc = "done"
            /\ disp'[o].recv = disp[o].recv]_vars

\* a voice turn forwarded one audio chunk, its second read timed out, and
\* the reply was persisted and forwarded
C15_Witness ==
    \E o \in Owners :
        /\ disp[o].timed_out = 2
        /\ disp[o].pc = "done"
        /\ Len(AudioOf(o, FALSE)) = 1
        /\ Persisted(disp[o])
        /\ ReplyForwarded(disp[o])
        /\ ~InLog(ErrorMsg("Error processing response"))

\* ---------------------------------------------------- claims C16, C17
\* the credentials the deployment resolves: all of them, or all but the
\* language model's key
KeyConfigs == {AllKeys, AllKeys \ {"gemini_api_key"}}

\* a text: frame without a transcript
BlankTexts == {<<" ">>}

ClientAnyText == \E q \in QueryTexts \cup BlankTexts : TextFrame(q)

InitDispatch == BridgeState /\ api_keys \in KeyConfigs

\* the frame loop with text: and speak: frames, under either configuration
\* of keys
NextDispatch ==
    \/ Tick
    \/ ClientStop
    \/ ClientBinary
    \/ ClientInvalid
    \/ ClientAnyText
    \/ ClientSpeak
    \/ SpeakRecv
    \/ SpeakFail
    \/ ClientDisconnect
    \/ \E o \in Owners : DispResolve(o)
    \/ \E o \in Owners : DispSearchDone(o)
    \/ \E o \in Owners : DispFail(o)

SpecDispatch == InitDispatch /\ [][NextDispatch]_vars

\* the number of error messages among the messages of seq
ErrorCount(seq) == Cardinality({i \in 1..Len(seq) : seq[i].type = "error"})

\* the step sent the reply of a dispatcher call
ReplySent == \E i \in 1..Len(NewlySent) : NewlySent[i].type \in {"response", "search"}

\* the step is a stop that was rejected, or a call of transcriber.stream
\* that raised
RejectedStopStep == StopStep /\ streamed' = streamed
FailedFlushStep == Len(streamed') = Len(streamed) + 1 /\ ~Last(streamed').ok

\* the step ends the stream_gemini_response call of owner o without a
\* result, on a live client connection
DispAbortStep(o) ==
    /\ disp[o].pc # "done"
    /\ disp'[o].pc = "done"
    /\ ws = "open"
    /\ ~ReplySent

\* C16: every abort path with a live client connection emits exactly one
\* error message: a rejected stop (too short, insufficient audio), a failed
\* flush, and a dispatcher call that gives up (invalid transcript, missing
\* credential, exception) each send one error, never none and never two.
C16_ExactlyOneErrorPerAbort ==
    [][(RejectedStopStep \/ FailedFlushStep \/ \E o \in Owners : DispAbortStep(o))
          => ErrorCount(NewlySent) = 1]_vars

\* a step of the call of owner o fails: no key for the language model, the
\* search request fails, or an exception (a first-read timeout included)
DispFailureStep(o) ==
    \/ disp[o].pc = "echoed" /\ disp'[o].pc # "echoed" /\ get_api_key("gemini_api_key") = ""
    \/ disp[o].pc = "searching" /\ disp'[o].reply = SearchError
    \/ /\ disp[o].pc \in {"searching", "tts_first", "tts_more"}
       /\ disp'[o].pc = "done"
       /\ disp'[o].recv = disp[o].recv
       /\ ~ReplySent

\* C17: a failing step of a dispatcher call on a live client connection
\* sends an error message and nothing else, skips the remaining steps (the
\* call returns, nothing is persisted), and leaves the client connection
\* and the frame loop as they are.
C17_StepFailureAbortsTurnOnly ==
    [][\A o \in Owners : (DispFailureStep(o) /\ ws = "open") =>
          /\ ErrorCount(NewlySent) >= 1
          /\ ErrorCount(NewlySent) = Len(NewlySent)
          /\ disp'[o].pc = "done"
          /\ chat_history' = chat_history
          /\ ws' = "open"
          /\ pc' # "closed"]_vars

\* ---------------------------------------------------- claims C18 .. C20
\* the frame loop from the middle of a recording on: audio frames, stop,
\* invalid frames and a speak: frame
NextFrames ==
    \/ Tick
    \/ ClientStop
    \/ ClientBinary
    \/ ClientInvalid
    \/ ClientSpeak
    \/ SpeakRecv
    \/ SpeakFail
    \/ ClientDisconnect

SpecFrames == InitBridge /\ [][NextFrames]_vars

\* the step leaves the frame loop by an exception: a call of
\* transcriber.stream raised, or the relay of a speak: frame did
FrameErrorStep ==
    \/ FailedFlushStep
    \/ pc \in {"speak_first", "speak_more"} /\ pc' = "closed"

\* C18: when processing a client frame raises, the client is sent an error
\* message, written while the connection is still open and the last message
\* it gets; the bridge and the client connection are closed, and no further
\* frame is processed: the closed session takes no step.
C18_FrameErrorClosesSession ==
    [][/\ FrameErrorStep =>
            /\ Len(NewlySent) = 1
            /\ NewlySent[1].type = "error"
            /\ ws = "open"
            /\ transcriber' = "closed"
            /\ ws' = "closed"
            /\ pc' = "closed"
       /\ pc = "closed" =>
            /\ frames' = frames
            /\ sent' = sent
            /\ streamed' = streamed
            /\ pc' = "closed"]_vars

\* the final flush of a stop raised: the session is closed, the error being
\* the last message
C18_Witness ==
    /\ streamed # <<>>
    /\ Last(streamed).via = "stop"
    /\ ~Last(streamed).ok
    /\ Last(sent) = ErrorMsg("WebSocket error")
    /\ pc = "closed"
    /\ ws = "closed"
    /\ transcriber = "closed"

\* C19: after a timed flush failed the client has been sent the error, the
\* bridge is closed, and no later call hands a frame of the failed batch to
\* the bridge again.
C19_FailedFlushNotRetried ==
    \A i \in 1..Len(streamed) :
        (streamed[i].via = "frame" /\ ~streamed[i].ok) =>
            /\ InLog(ErrorMsg("Audio streaming error"))
            /\ transcriber = "closed"
            /\ \A j \in 1..Len(streamed) :
                  j > i => FrameIds(streamed[j].data) \cap FrameIds(streamed[i].data) = {}

\* a timed flush of a batch of two frames failed: the batch is still in
\* the buffer and the session is closed
C19_Witness ==
    /\ streamed # <<>>
    /\ Last(streamed).via = "frame"
    /\ ~Last(streamed).ok
    /\ Len(Last(streamed).data) = 2
    /\ audio_buffer = Last(streamed).data
    /\ Last(sent) = ErrorMsg("Audio streaming error")
    /\ pc = "closed"

\* the step processes a frame that fails validation or policy: a rejected
\* stop, a frame that is neither text nor bytes, a text: frame whose
\* transcript is empty
ValidationErrorStep ==
    \/ RejectedStopStep
    \/ NewFrame /\ Last(frames').kind = "invalid"
    \/ NewFrame /\ Last(frames').kind = "text" /\ Last(frames').len = 0

\* C20: a validation or policy error is reported to the client as an error
\* message and leaves the client connection open and the frame loop running.
C20_ValidationErrorsReported ==
    [][ValidationErrorStep =>
          /\ ErrorCount(NewlySent) >= 1
          /\ ws' = "open"
          /\ pc' = "loop"]_vars

\* ---------------------------------------------------------- claim C21
\* the voice turns whose transcript is t, and the entries of the chat file
\* whose query is t
TurnsOf(t) ==
    {i \in 1..Len(delivered) : delivered[i].kind = "final" /\ Strip(delivered[i].text) = t}
EntriesOf(t) == {k \in 1..Len(chat_history) : chat_history[k].user_query = t}

\* the reply messages sent so far
Replies == {i \in 1..Len(sent) : sent[i].type \in {"response", "search"}}

\* C21: with saving enabled the chat file holds one entry for every turn
\* that got its reply and none with saving disabled, and no transcript is
\* persisted twice: the file never holds more entries for a transcript than
\* there were turns with that transcript.
C21_OneEntryPerCompletedTurn ==
    /\ ws = "open" =>
          Len(chat_history) = (IF USER_SETTINGS.autoSaveHistory
                               THEN Cardinality(Replies) ELSE 0)
    /\ \A k \in 1..Len(chat_history) :
          Cardinality(EntriesOf(chat_history[k].user_query))
              <= Cardinality(TurnsOf(chat_history[k].user_query))


\* ------------------------------------------------------- the HTTP routes
MaxDocs == 2
MaxRequests == 4

\* what the routes leave alone: the session and the environment
handlerVars == <<now, nticks, pc, ws, transcriber, api_keys, speak, audioVars,
                 frames, sent, bridgeVars>>

\* dict.get(key, default) and dict.update(other)
Get(dict, key, default) == IF key \in DOMAIN dict THEN dict[key] ELSE default
Update(dict, other) ==
    [k \in DOMAIN dict \cup DOMAIN other |->
        IF k \in DOMAIN other THEN other[k] ELSE dict[k]]

\* the names of uploaded files, after sanitize_filename
FileNames ==
    {<<"notes", ".", "txt">>, <<"report", ".", "txt">>,
     <<"report", " ", "2024", ".", "txt">>, <<"my", " ", "search", ".", "txt">>,
     <<"image", ".", "png">>}

\* sanitized_filename.endswith(".pdf") / (".txt") (lines 202, 219)
EndsWith(t, suffix) ==
    Len(t) >= Len(suffix) /\ SubSeq(t, Len(t) - Len(suffix) + 1, Len(t)) = suffix

\* /upload (lines 194-244): a .txt or .pdf file is entered in KNOWLEDGE_BASE
\* under its name; a name already there keeps its place in the dict
upload_file(filename) ==
    /\ Len(KNOWLEDGE_BASE) < MaxDocs
    /\ KNOWLEDGE_BASE' =
           IF (EndsWith(filename, <<".", "txt">>) \/ EndsWith(filename, <<".", "pdf">>))
              /\ ~\E k \in 1..Len(KNOWLEDGE_BASE) : KNOWLEDGE_BASE[k] = filename
           THEN Append(KNOWLEDGE_BASE, filename)
           ELSE KNOWLEDGE_BASE
    /\ UNCHANGED <<handlerVars, USER_SETTINGS, USER_API_KEYS, USER_OVERRIDE_ENV, requests>>

\* /set_settings (lines 261-272): USER_SETTINGS.update(settings)
set_settings(settings) ==
    /\ Len(requests) < MaxRequests
    /\ USER_SETTINGS' = Update(USER_SETTINGS, settings)
    /\ requests' = Append(requests, [route |-> "set_settings", body |-> settings])
    /\ UNCHANGED <<handlerVars, KNOWLEDGE_BASE, USER_API_KEYS, USER_OVERRIDE_ENV>>

\* /set_keys (lines 246-259)
set_api_keys(keys) ==
    /\ Len(requests) < MaxRequests
    /\ USER_OVERRIDE_ENV' = (LowerToken(Get(keys, "override_env", "false")) = "true")
    /\ USER_API_KEYS' =
           Update(USER_API_KEYS, [k \in DOMAIN keys \cap AllKeys |-> keys[k]])
    /\ requests' = Append(requests, [route |-> "set_keys", body |-> keys])
    /\ UNCHANGED <<handlerVars, KNOWLEDGE_BASE, USER_SETTINGS>>

\* a route that resets whatever the request says
ResetAlways(data) == TRUE

\* if data.get("reset") (line 286)
ResetRequested(data) == Get(data, "reset", FALSE)

\* /reset_settings (lines 282-311)
reset_settings(data) ==
    /\ Len(requests) < MaxRequests
    /\ IF ResetRequested(data)
       THEN /\ USER_API_KEYS' = NoKeys
            /\ USER_OVERRIDE_ENV' = FALSE
            /\ USER_SETTINGS' = DefaultSettings
       ELSE UNCHANGED <<USER_API_KEYS, USER_OVERRIDE_ENV, USER_SETTINGS>>
    /\ requests' = Append(requests, [route |-> "reset_settings", body |-> data])
    /\ UNCHANGED <<handlerVars, KNOWLEDGE_BASE>>

\* ------------------------------------ queries against the knowledge base
\* the queries of text: frames
KbQueryTexts ==
    {<<"hello">>,
     <<"Search", " ", "news">>,
     <<"look", " ", "up", " ", "news">>,
     <<"give", " ", "me", " ", "a", " ", "summary", " ", "of", " ", "report">>,
     <<"Summary", " ", "of", " ", "my", " ", "notes", "?">>}

ClientQuery == \E q \in KbQueryTexts : TextFrame(q)

\* the documents are uploaded and the settings switched before the client
\* sends its first query
NoQueryYet == \A k \in 1..Len(frames) : frames[k].kind # "text"

UploadAny == \E f \in FileNames : NoQueryYet /\ upload_file(f)

SwitchSetting ==
    \E settings \in {[enableSearch |-> FALSE], [includeKnowledgeBase |-> FALSE]} :
        NoQueryYet /\ set_settings(settings)

NextQuery ==
    \/ UploadAny
    \/ SwitchSetting
    \/ ClientQuery
    \/ DispResolve(0)
    \/ DispSearchDone(0)
    \/ DispFail(0)

SpecQuery == InitBridge /\ [][NextQuery]_vars

\* ----------------------------------------------------------------- C22
\* the text holds one of the words "search", "find", "look up"
HasCueWord(t) ==
    \/ Contains(lower(t), <<"search">>)
    \/ Contains(lower(t), <<"find">>)
    \/ Contains(lower(t), <<"look", " ", "up">>)

\* the step takes the call of owner o past the choice of its branch
BranchStep(o) ==
    /\ disp[o].pc = "echoed"
    /\ disp'[o].pc # "echoed"
    /\ get_api_key("gemini_api_key") # ""

\* the step is one of the call of owner o, which is in the search branch
SearchBranchStep(o) ==
    /\ disp[o].branch = "search"
    /\ disp[o].pc # "done"
    /\ disp'[o] # disp[o]

\* C22: with search enabled, a query whose text (after the knowledge-base
\* rewrite) holds "search", "find" or "look up" takes the search branch and
\* never the language-model branch: the model is not called, no step of the
\* call sends a response message, and the call that ends without an error
\* has sent its result as a search message.
C22_SearchCueBypassesModel ==
    [][\A o \in Owners :
          /\ (BranchStep(o) /\ USER_SETTINGS.enableSearch /\ HasCueWord(disp'[o].query)) =>
                /\ disp'[o].branch = "search"
                /\ disp'[o].pc = "searching"
                /\ disp'[o].reply = ""
                /\ NewlySent = <<>>
          /\ SearchBranchStep(o) =>
                /\ disp'[o].branch = "search"
                /\ disp'[o].reply # "reply"
                /\ \A i \in 1..Len(NewlySent) : NewlySent[i].type # "response"
                /\ (disp'[o].pc = "done" /\ ws = "open"
                        /\ ~SentInStep(ErrorMsg("Error processing response"))) =>
                      SentInStep(ReplyMsg("search", disp'[o].reply))]_vars

\* a query without a cue word was rewritten to one with a cue word, and its
\* call has ended with a search message
C22_Witness ==
    /\ disp[0].pc = "done"
    /\ disp[0].branch = "search"
    /\ ~HasCueWord(disp[0].transcript)
    /\ HasCueWord(disp[0].query)
    /\ InLog(ReplyMsg("search", disp[0].reply))

\* ----------------------------------------------------------------- C23
\* the tokens of a text: its words, a mark of punctuation parting two words
\* as whitespace does
Tokens(t) == {<<lower(t)[i]>> : i \in {k \in 1..Len(t) : t[k] \notin Punctuation \cup {" "}}}

\* the documents whose name shares a token with the text
NameOverlap(t) ==
    {k \in 1..Len(KNOWLEDGE_BASE) : Tokens(t) \cap Tokens(KNOWLEDGE_BASE[k]) # {}}

\* C23: when knowledge-base inclusion is enabled and the query contains
\* "summary", a query whose tokens overlap the name of a known document is
\* rewritten to reference the first such document in insertion order; with
\* the documents notes.txt and report.txt the query "give me a summary of
\* report" is rewritten to reference report.txt.
C23_RewriteToFirstOverlappingDocument ==
    [][\A o \in Owners :
          (/\ BranchStep(o)
           /\ USER_SETTINGS.includeKnowledgeBase
           /\ Contains(lower(disp[o].transcript), <<"summary">>)
           /\ NameOverlap(disp[o].transcript) # {}) =>
              \E k \in NameOverlap(disp[o].transcript) :
                  /\ \A j \in NameOverlap(disp[o].transcript) : k <= j
                  /\ disp'[o].query = SummarizeFile(KNOWLEDGE_BASE[k])]_vars

\* ----------------------------------------------------------------- C24
\* the frame loop of a new session, without the clock: the client starts as
\* its first frame or never, sends one audio frame, which stays in the
\* buffer, and text: and speak: frames
StartFirst == frames = <<>> /\ ClientStart
OneAudioFrame == audio_buffer = <<>> /\ ClientBinary

NextControl ==
    \/ StartFirst
    \/ OneAudioFrame
    \/ ClientAnyText
    \/ ClientSpeak
    \/ SpeakRecv
    \/ SpeakFail
    \/ ClientDisconnect
    \/ DispResolve(0)
    \/ DispSearchDone(0)
    \/ DispFail(0)

\* with and without a key for the synthesis service
InitControl == NewSession /\ api_keys \in {AllKeys, AllKeys \ {"murf_api_key"}}

SpecControl == InitControl /\ [][NextControl]_vars

\* the step processed a text: frame with a query, a speak: frame; it is a
\* step of the call the text: frame made, of the relay of a speak: frame
TextStep == NewFrame /\ Last(frames').kind = "text" /\ Last(frames').len > 0
SpeakStep == NewFrame /\ Last(frames').kind = "speak"
TextCallStep == pc = "text" /\ disp'[0] # disp[0]
RelayStep == pc \in {"speak_first", "speak_more"}

\* text: makes the call, and neither frame touches what is not its own
FramesKeepToTheirPath ==
    /\ TextStep =>
          /\ disp'[0].pc = "echoed"
          /\ Len(disp'[0].transcript) = Last(frames').len
          /\ ~disp'[0].voice
          /\ NewlySent = <<UserMessage(disp'[0].transcript, TRUE, 0)>>
    /\ (TextStep \/ TextCallStep) =>
          /\ UNCHANGED audioVars
          /\ transcriber' = transcriber
    /\ (SpeakStep \/ RelayStep) =>
          /\ UNCHANGED <<disp, tasks, chat_history>>
          /\ pc' # "text"

SettingsBodies ==
    {[enableSearch |-> FALSE],
     [theme |-> "light", autoSaveHistory |-> FALSE],
     [volume |-> 7]}
KeysBodies ==
    {[gemini_api_key |-> "k1"],
     [murf_api_key |-> "k2", override_env |-> "True"],
     [other_key |-> "k3", override_env |-> "false"]}
ResetBodies == {[reset |-> TRUE], [reset |-> FALSE], [k \in {} |-> TRUE]}

NextSettings ==
    \/ \E settings \in SettingsBodies : set_settings(settings)
    \/ \E keys \in KeysBodies : set_api_keys(keys)
    \/ \E data \in ResetBodies : reset_settings(data)

SpecSettings == Init /\ [][NextSettings]_vars

\* the step served a request to /reset_settings; the request asked for the
\* reset with reset = true
ResetStep ==
    /\ Len(requests') = Len(requests) + 1
    /\ Last(requests').route = "reset_settings"
AsksReset(req) ==
    /\ req.route = "reset_settings"
    /\ "reset" \in DOMAIN req.body
    /\ req.body["reset"] = TRUE

\* the settings, the stored keys and the override flag
stored == <<USER_SETTINGS, USER_API_KEYS, USER_OVERRIDE_ENV>>

\* C25: a reset with reset = true leaves the default settings, no stored key
\* and the override flag off, whatever set_settings and set_api_keys did
\* before, so that a second reset right after it changes nothing; a reset
\* request without reset = true changes nothing.
C25_ResetIsIdempotent ==
    [][ResetStep =>
          IF AsksReset(Last(requests'))
          THEN /\ stored' = <<DefaultSettings, NoKeys, FALSE>>
               /\ (requests # <<>> /\ AsksReset(Last(requests))) => stored' = stored
          ELSE stored' = stored]_vars

\* two resets in a row, after requests that had changed the settings, the
\* keys and the flag
C25_Witness ==
    /\ Len(requests) = 4
    /\ requests[1].route = "set_settings"
    /\ requests[2] = [route |-> "set_keys",
                      body |-> [murf_api_key |-> "k2", override_env |-> "True"]]
    /\ AsksReset(requests[3])
    /\ AsksReset(requests[4])
    /\ stored = <<DefaultSettings, NoKeys, FALSE>>

\* ----------------------------------------------------------------- C26
\* transcripts and queries with and without a request for email delivery
EmailTexts ==
    {<<"hello">>,
     <<"hello", " ", "send", " ", "to", " ", "email">>,
     <<"find", " ", "news", " ", "and", " ", "email", " ", "the", " ", "summary">>}

DeliverEmailFinal ==
    \E t \in EmailTexts :
        /\ delivered = <<>>
        /\ NoQueryYet
        /\ OnEvent([kind |-> "final", text |-> t])

ClientEmailText == \E q \in EmailTexts : delivered = <<>> /\ TextFrame(q)

\* one voice turn, or the text: turns of the client, with the webhook
NextOrder ==
    \/ DeliverEmailFinal
    \/ TaskStart
    \/ \E i \in 1..MaxEvents : i <= Len(tasks) /\ TaskTurnEnded(i)
    \/ \E i \in 1..MaxEvents : i <= Len(tasks) /\ TaskDispatch(i)
    \/ ClientEmailText
    \/ \E o \in Owners : DispResolve(o)
    \/ \E o \in Owners : DispSearchDone(o)
    \/ \E o \in Owners : DispRelayRecv(o)
    \/ \E o \in Owners : DispZapier(o)
    \/ \E o \in Owners : DispFail(o)

SpecOrder == InitBridge /\ [][NextOrder]_vars

\* the positions of a call of stream_gemini_response, in program order
Rank(p) ==
    CASE p = "idle" -> 0
      [] p = "echoed" -> 1
      [] p = "searching" -> 2
      [] p = "tts_first" -> 3
      [] p = "tts_more" -> 4
      [] p = "zapier" -> 5
      [] p = "done" -> 6

TypesSent == {NewlySent[i].type : i \in 1..Len(NewlySent)}
IsReply(m) == m.type \in {"response", "search"}

\* C26: the messages of one call of stream_gemini_response come in a fixed
\* order: the user_message echo first, then the audio messages of the call
\* (a voice call only), then its one response or search message, then the
\* zapier message if the transcript asked for email delivery; no audio
\* message of the call follows its response or search message.
C26_TurnMessagesInOrder ==
    [][\A o \in Owners :
          disp'[o] # disp[o] =>
              LET before == disp[o].pc
                  after == disp'[o].pc
              IN
              /\ IF before \in {"idle", "done"}
                 THEN after \in {"echoed", "done"}
                 ELSE Rank(after) > Rank(before) \/ (before = "tts_more" /\ after = before)
              /\ "user_message" \in TypesSent =>
                    /\ before \in {"idle", "done"}
                    /\ after = "echoed"
                    /\ NewlySent = <<UserMessage(disp'[o].transcript, TRUE, 0)>>
              /\ "audio" \in TypesSent =>
                    /\ disp[o].voice
                    /\ before \in {"tts_first", "tts_more"}
                    /\ \A i \in 1..Len(NewlySent) :
                          NewlySent[i].type = "audio" => NewlySent[i].data[1] = o
              /\ (\E i \in 1..Len(NewlySent) : IsReply(NewlySent[i])) =>
                    /\ before \in {"echoed", "searching", "tts_first", "tts_more"}
                    /\ after = (IF EmailRequested(disp[o].transcript) THEN "zapier" ELSE "done")
                    /\ IsReply(Last(NewlySent))
                    /\ \A i \in 1..(Len(NewlySent) - 1) : ~IsReply(NewlySent[i])
              /\ "zapier" \in TypesSent =>
                    /\ before = "zapier"
                    /\ after = "done"
                    /\ EmailRequested(disp[o].transcript)
                    /\ NewlySent = <<ZapierMsg>>
              /\ before = "zapier" => TypesSent \subseteq {"zapier", "error"}]_vars

\* a voice call whose transcript asked for email delivery has ended: echo,
\* two audio messages, the search message and the zapier message, in order
C26_Witness ==
    \E o \in Owners \ {0} :
        /\ disp[o].pc = "done"
        /\ EmailRequested(disp[o].transcript)
        /\ \E e, a, b, r, z \in 1..Len(sent) :
              /\ e < a /\ a < b /\ b < r /\ r < z
              /\ sent[e] = UserMessage(disp[o].transcript, TRUE, 0)
              /\ sent[a] = AudioMsg(<<o, 1>>, FALSE)
              /\ sent[b] = AudioMsg(<<o, 2>>, TRUE)
              /\ sent[r] = ReplyMsg("search", disp[o].reply)
              /\ sent[z] = ZapierMsg

\* ----------------------------------------------------------------- C27
\* one final transcript on a recording session that the client leaves, or
\* that a failed flush or an error of the frame loop (a speak: relay that
\* raises) ends; the clock advances once after a flush, and the client sends
\* its audio then
TickOnce == now = last_send_time /\ Tick
LateBinary == now # last_send_time /\ ClientBinary

NextClose ==
    \/ DeliverOnlyFinal
    \/ TaskStart
    \/ \E i \in 1..MaxEvents : i <= Len(tasks) /\ TaskTurnEnded(i)
    \/ \E i \in 1..MaxEvents : i <= Len(tasks) /\ TaskDispatch(i)
    \/ \E o \in Owners : DispResolve(o)
    \/ \E o \in Owners : DispSearchDone(o)
    \/ \E o \in Owners : DispTtsRecv(o)
    \/ \E o \in Owners : DispFail(o)
    \/ TickOnce
    \/ LateBinary
    \/ ClientSpeak
    \/ SpeakFail
    \/ ClientDisconnect

SpecClose == InitBridge /\ [][NextClose]_vars

\* the session is CLOSED: the finally clause has closed the bridge and the
\* client connection
Closed == pc = "closed" /\ ws = "closed" /\ transcriber = "closed"

\* how the session came to be closed
ClosedBy ==
    IF frames # <<>> /\ Last(frames).kind = "bytes" /\ streamed # <<>>
          /\ ~Last(streamed).ok /\ Last(streamed).frame = Len(frames)
    THEN "flush failure"
    ELSE IF InLog(ErrorMsg("WebSocket error"))
    THEN "loop error"
    ELSE "disconnect"

\* the step starts the forward_event coroutine of delivered[i], resumes it
\* after its user_message, makes its call of stream_gemini_response
StartsTask(i) == tasks[i] = "scheduled" /\ tasks'[i] # "scheduled"
ResumesTask(i) == tasks[i] = "um_sent" /\ tasks'[i] # "um_sent"
MakesCall(i) == tasks[i] = "te_sent" /\ tasks'[i] # "te_sent"

\* C27: once the session is CLOSED no message is written to the client
\* connection: a forward_event coroutine that was scheduled before the close
\* and starts after it, or that resumes after it, ends at its next send,
\* without a message and without a reply turn: a call of
\* stream_gemini_response it still makes ends at its echo, with no branch
\* chosen, no reply and nothing persisted.
C27_NothingSentOnceClosed ==
    [][Closed =>
          /\ sent' = sent
          /\ \A i \in 1..Len(tasks) :
                /\ (StartsTask(i) \/ ResumesTask(i)) =>
                      tasks'[i] = "done" /\ disp' = disp /\ chat_history' = chat_history
                /\ MakesCall(i) =>
                      /\ tasks'[i] = "done"
                      /\ disp'[i].pc = "done"
                      /\ disp'[i].branch = "none"
                      /\ disp'[i].reply = ""
                      /\ chat_history' = chat_history
          /\ \A o \in Owners : disp'[o].pc = "echoed" => disp[o].pc = "echoed"]_vars

\* after a failed flush closed the session, the coroutine of a final
\* transcript that was scheduled before has run: nothing was sent for it and
\* no call was made
C27_Witness ==
    /\ Closed
    /\ ClosedBy = "flush failure"
    /\ \E i \in 1..Len(tasks) :
          /\ delivered[i].kind = "final"
          /\ tasks[i] = "done"
          /\ disp[i].pc = "idle"
          /\ \A k \in 1..Len(sent) : sent[k].type # "user_message"
====
